---- MODULE Spec2Model ----
(***************************************************************************)
(* bdf2c: BDF font to C source converter.                                  *)
(*                                                                         *)
(* The module models the glyph pipeline of bdf2c.c: the hex row decoder,   *)
(* RotateBitmap, OutlineCharacter, DumpCharacter and the line loop of      *)
(* ReadBdf.  Two specifications are given:                                 *)
(*   SpecFn  applies RotateBitmap / OutlineCharacter to bitmaps drawn      *)
(*           from bounded sets;                                            *)
(*   Spec    runs the second loop of ReadBdf over an input file drawn      *)
(*           line by line from bounded sets.                               *)
(* Bitmaps are sequences of bytes (0..255); C index i is TLA+ index i+1.   *)
(*                                                                         *)
(* malloc does not initialise the memory it returns, and ReadBdf reads     *)
(* some of it before it has stored to it.  Such a byte or word can be any  *)
(* value, and is the same value at every read.  It is kept by name: byte   *)
(* i - 1 of the buffer as malloc left it is written -i, and a table entry  *)
(* never stored is written as a word with a negative high half.  Valued    *)
(* gives the byte a name stands for once the bytes malloc left are known.  *)
(***************************************************************************)
EXTENDS Integers, Sequences, FiniteSets

VARIABLES
    \* ---- ReadBdf: locals of the function (names as in the source) ----
    pc,                     \* "run", "done" (tables emitted), "exit" (exit(-1)), "crash"
    Outline,                \* global mode flag
    fontboundingbox_width, fontboundingbox_height,
    fontboundingbox_xoff, fontboundingbox_yoff,
    chars,                  \* declared glyph count
    n,                      \* glyphs appended so far
    encoding, bbx, bby, bbw, bbh, width, scanline,
    bitmap,                 \* glyph buffer, 2 * rowbytes * height bytes
    garbage,                \* the calls made on the rows of the buffer as malloc left them
    width_table, encoding_table,   \* the entries written inside the allocation
    \* ---- ReadBdf: what the run has written to its outputs ----
    last,                   \* the glyph the handler of the line just read emitted
    out_count, out_bytes,   \* glyph bitmaps and bitmap bytes in the emitted blob
    out_widths, out_encodings,     \* tables as printed at end of file
    wr,                     \* the store into the tables BITMAP made for this block
    \* ---- the input file: the lines read since the last ENDCHAR ----
    pos, blk,
    nlines,                 \* lines the glyph loop has acted on (skipped lines not counted)
    \* ---- SpecFn: one call of RotateBitmap or OutlineCharacter ----
    f_pc, f_width, f_height, f_bitmap, f_before, f_call

vars == << pc, Outline, fontboundingbox_width, fontboundingbox_height,
           fontboundingbox_xoff, fontboundingbox_yoff, chars, n,
           encoding, bbx, bby, bbw, bbh, width, scanline, bitmap, garbage,
           width_table, encoding_table, last, out_count, out_bytes,
           out_widths, out_encodings, wr, pos, blk, nlines,
           f_pc, f_width, f_height, f_bitmap, f_before, f_call >>

bdfVars == << pc, Outline, fontboundingbox_width, fontboundingbox_height,
              fontboundingbox_xoff, fontboundingbox_yoff, chars, n,
              encoding, bbx, bby, bbw, bbh, width, scanline, bitmap, garbage,
              width_table, encoding_table, last, out_count, out_bytes,
              out_widths, out_encodings, wr, pos, blk, nlines >>

fnVars == << f_pc, f_width, f_height, f_bitmap, f_before, f_call >>

(***************************************************************************)
(* Bounds of the model.                                                    *)
(***************************************************************************)
MaxGlyphs == 2      \* BITMAP lines, and ENDCHAR lines, read from one file
MaxRows == 1        \* hex rows read after one BITMAP line
MaxLines == 6       \* lines of one file the glyph loop acts on
MaxHeight == 2      \* SpecFn: bitmap heights 1..MaxHeight

(***************************************************************************)
(* C integer arithmetic.                                                   *)
(***************************************************************************)
\* <limits.h>, written so that every intermediate value fits 32 bits
INT_MIN == -2147483647 - 1

U8(x) == x % 256

\* int -> unsigned conversion of a store into an unsigned table.  The 32-bit
\* unsigned value is kept as its two 16-bit halves: value = hi * 65536 + lo.
U32(x) == [hi |-> (x \div 65536) % 65536, lo |-> x % 65536]

RECURSIVE BitOr(_, _)
BitOr(a, b) ==
    IF a = 0 THEN b
    ELSE IF b = 0 THEN a
    ELSE (IF a % 2 = 1 \/ b % 2 = 1 THEN 1 ELSE 0) + 2 * BitOr(a \div 2, b \div 2)

RECURSIVE BitAnd(_, _)
BitAnd(a, b) ==
    IF a = 0 \/ b = 0 THEN 0
    ELSE (IF a % 2 = 1 /\ b % 2 = 1 THEN 1 ELSE 0) + 2 * BitAnd(a \div 2, b \div 2)

\* (width + 7) / 8
RowBytes(w) == (w + 7) \div 8

\* 0x80 >> x % 8
Mask(x) == 128 \div (2 ^ (x % 8))

(***************************************************************************)
(* Hex2Int and the hex row decoder.  A line is a sequence of character    *)
(* codes.                                                                  *)
(***************************************************************************)
Hex2Int(c) ==
    IF c <= 57 THEN c - 48
    ELSE IF c <= 70 THEN c - 65 + 10
    ELSE c - 97 + 10

\* The bytes the while loop of the decoder stores for the token s, in the
\* order j = 0, 1, ...: two digits make one byte, a trailing single digit
\* makes a last byte of its own.
RECURSIVE DecodeLine(_, _)
DecodeLine(s, p) ==
    IF p > Len(s) THEN << >>
    ELSE IF p + 1 > Len(s) THEN << U8(Hex2Int(s[p])) >>
    ELSE << U8(BitOr(Hex2Int(s[p + 1]), Hex2Int(s[p]) * 16)) >>
         \o DecodeLine(s, p + 2)

\* bitmap[j + scanline * rowbytes] = i, for the bytes of one line; a store
\* outside the allocation is left out here (WriteOutside tells of it).
WriteRow(bm, sl, w, bytes) ==
    [i \in 1..Len(bm) |->
        LET j == (i - 1) - sl * RowBytes(w)
        IN IF j >= 0 /\ j < Len(bytes) THEN bytes[j + 1] ELSE bm[i]]

WriteOutside(bm, sl, w, bytes) ==
    \E j \in 0..(Len(bytes) - 1) : j + sl * RowBytes(w) >= Len(bm)

(***************************************************************************)
(* RotateBitmap.                                                           *)
(***************************************************************************)
\* The inner loop "for (; p2 >= p0; p2 --)": p0, p1, p2 are byte indexes.
RECURSIVE RotateRow(_, _, _, _, _)
RotateRow(bm, p0, p1, p2, byteshift) ==
    IF p2 < p0 THEN bm
    ELSE
        LET val ==
                IF p1 >= p0
                THEN IF byteshift > 0
                     THEN U8(BitOr(bm[p1 + 1] \div (2 ^ byteshift),
                                   IF p1 > p0
                                   THEN bm[p1] * (2 ^ (8 - byteshift))
                                   ELSE 0))
                     ELSE bm[p1 + 1]
                ELSE 0
            np1 == IF p1 >= p0 THEN p1 - 1 ELSE p1
        IN RotateRow([bm EXCEPT ![p2 + 1] = val], p0, np1, p2 - 1, byteshift)

\* The outer loop "for (y = 0; y < height; ++y)".
RECURSIVE RotateRows(_, _, _, _, _)
RotateRows(bm, y, shiftx, w, h) ==
    IF y >= h THEN bm
    ELSE
        LET p0 == y * RowBytes(w)
            p2 == p0 + RowBytes(w) - 1
            p1 == p2 + 1 - ((shiftx + 7) \div 8)
        IN RotateRows(RotateRow(bm, p0, p1, p2, shiftx % 8), y + 1, shiftx, w, h)

\* Mutant: the test of shifty is left out.
RotateBitmap_NoShiftyTest(bm, shiftx, shifty, w, h) ==
    IF shiftx < 0 \/ shiftx >= w THEN bm
    ELSE RotateRows(bm, 0, shiftx, w, h)

\* The two refusals (each logs a diagnostic and returns), then the row loop.
\* glywidth and glyheight are only printed and are left out.
RotateBitmap(bm, shiftx, shifty, w, h) ==
    IF shiftx < 0 \/ shiftx >= w THEN bm
    ELSE IF shifty > 0 THEN bm
    ELSE RotateRows(bm, 0, shiftx, w, h)

(***************************************************************************)
(* OutlineCharacter.                                                       *)
(***************************************************************************)
\* bitmap[y * ((width + 7) / 8) + x / 8] & (0x80 >> x % 8)
BitAt(bm, w, x, y) == BitAnd(bm[y * RowBytes(w) + (x \div 8) + 1], Mask(x))

\* Mutant: the right neighbour is read without the bound x < width - 1.
OutlineTest_NoRightBound(bm, w, h, x, y) ==
    /\ BitAt(bm, w, x, y) = 0
    /\ IF y # 0 /\ BitAt(bm, w, x, y - 1) # 0 THEN TRUE
       ELSE IF x # 0 /\ BitAt(bm, w, x - 1, y) # 0 THEN TRUE
       ELSE IF (x + 1) \div 8 < RowBytes(w) /\ BitAt(bm, w, x + 1, y) # 0 THEN TRUE
       ELSE IF y < h - 1 /\ BitAt(bm, w, x, y + 1) # 0 THEN TRUE
       ELSE FALSE

\* The if / else-if chain that sets the outline bit of pixel (x, y).
OutlineTest(bm, w, h, x, y) ==
    /\ BitAt(bm, w, x, y) = 0
    /\ IF y # 0 /\ BitAt(bm, w, x, y - 1) # 0 THEN TRUE
       ELSE IF x # 0 /\ BitAt(bm, w, x - 1, y) # 0 THEN TRUE
       ELSE IF x < w - 1 /\ BitAt(bm, w, x + 1, y) # 0 THEN TRUE
       ELSE IF y < h - 1 /\ BitAt(bm, w, x, y + 1) # 0 THEN TRUE
       ELSE FALSE

\* One byte of the scratch buffer "outline" after the two loops: the bits
\* or-ed in for the pixels x = from .. min(from + 7, width - 1) of row y.
RECURSIVE OutlineByte(_, _, _, _, _, _)
OutlineByte(bm, w, h, y, x, xend) ==
    IF x > xend \/ x >= w THEN 0
    ELSE BitOr(IF OutlineTest(bm, w, h, x, y) THEN Mask(x) ELSE 0,
               OutlineByte(bm, w, h, y, x + 1, xend))

\* memcpy(bitmap, outline, rowbytes * height): the rest of the buffer stays.
OutlineCharacter(bm, w, h) ==
    [i \in 1..Len(bm) |->
        IF i <= RowBytes(w) * h
        THEN LET y == (i - 1) \div RowBytes(w)
                 j == (i - 1) % RowBytes(w)
             IN OutlineByte(bm, w, h, y, 8 * j, 8 * j + 7)
        ELSE bm[i]]

(***************************************************************************)
(* The values the variables of one specification keep under the other.    *)
(***************************************************************************)
NoCall == [op |-> "none", shiftx |-> 0, shifty |-> 0]

BdfOff ==
    /\ pc = "off" /\ Outline = FALSE
    /\ fontboundingbox_width = 0 /\ fontboundingbox_height = 0
    /\ fontboundingbox_xoff = 0 /\ fontboundingbox_yoff = 0
    /\ chars = 0 /\ n = 0
    /\ encoding = 0 /\ bbx = 0 /\ bby = 0 /\ bbw = 0 /\ bbh = 0
    /\ width = 0 /\ scanline = 0
    /\ bitmap = << >> /\ garbage = << >>
    /\ width_table = << >> /\ encoding_table = << >>
    /\ last = << >> /\ out_count = 0 /\ out_bytes = 0
    /\ out_widths = << >> /\ out_encodings = << >>
    /\ wr = << >> /\ pos = 0 /\ blk = << >> /\ nlines = 0

FnOff ==
    /\ f_pc = "off" /\ f_width = 0 /\ f_height = 0
    /\ f_bitmap = << >> /\ f_before = << >> /\ f_call = NoCall

(***************************************************************************)
(* DumpCharacter: the rows printed for one glyph, each row the bytes its   *)
(* eight-pixel names stand for.  A blank padding row is printed as the     *)
(* fixed text "________,________,".                                        *)
(***************************************************************************)
BlankRow == << 0, 0 >>

DumpCharacter(bm, w, h, yoffset) ==
    LET bmheight == h - (IF yoffset < 0 THEN -yoffset ELSE yoffset)
        \* yoffset as the first loop leaves it
        yo == IF yoffset > 0 THEN 0 ELSE yoffset
        top == [k \in 1..(IF yoffset > 0 THEN yoffset ELSE 0) |-> BlankRow]
        mid == [y \in 1..(IF bmheight > 0 THEN bmheight ELSE 0) |->
                  [j \in 1..RowBytes(w) |->
                      bm[((y - 1) - yo) * RowBytes(w) + (j - 1) + 1]]]
        bottom == [k \in 1..(IF yoffset < 0 THEN -yoffset ELSE 0) |-> BlankRow]
    IN top \o mid \o bottom

RECURSIVE CountBytes(_)
CountBytes(rows) ==
    IF rows = << >> THEN 0 ELSE Len(Head(rows)) + CountBytes(Tail(rows))

(***************************************************************************)
(* ReadBdf: the steps of the handlers of BITMAP and ENDCHAR.               *)
(***************************************************************************)
\* "if (bbx < 0) { width -= bbx; bbx = 0; }": the new bbx
AdjustBbx(bx) == IF bx < 0 THEN 0 ELSE bx

\* Mutant: the outline border is not added to the width.
AdjustWidth_NoOutlineBorder(w, bx, bw, outline) ==
    LET w1 == IF bx < 0 THEN w - bx ELSE w
        w2 == IF AdjustBbx(bx) + bw > w1 THEN AdjustBbx(bx) + bw ELSE w1
    IN w2

\* "Adjust width based on bounding box", then the outline border
AdjustWidth(w, bx, bw, outline) ==
    LET w1 == IF bx < 0 THEN w - bx ELSE w
        w2 == IF AdjustBbx(bx) + bw > w1 THEN AdjustBbx(bx) + bw ELSE w1
    IN IF outline THEN w2 + 1 ELSE w2

\* memset(bitmap, 0, rowbytes * height)
ClearBitmap(bm, w, h) ==
    [i \in 1..Len(bm) |-> IF i <= RowBytes(w) * h THEN 0 ELSE bm[i]]

\* flag_shifted and flag_overflow as ENDCHAR computes them
ShiftFlags(bx, by, bw, bh, fw, fh, xoff, yoff) ==
    LET hs == bx - xoff # 0
        ho == hs /\ (IF bx < xoff THEN TRUE
                     ELSE IF bw + bx > xoff + fw THEN TRUE ELSE FALSE)
        vs == by + bh - yoff - fh # 0
        vo == vs /\ (IF by < yoff THEN TRUE
                     ELSE IF by + bh > yoff + fh THEN TRUE ELSE FALSE)
    IN [shifted |-> IF hs \/ vs THEN 1 ELSE 0,
        overflow |-> IF ho \/ vo THEN 1 ELSE 0]

\* The highest byte index a call of RotateBitmap reads or writes: p2 of the
\* last row, or p1 of the last row where it starts; none if the call is
\* refused.  The lowest is p0 of row 0.
RotateMaxIndex(shiftx, shifty, w, h) ==
    IF shiftx < 0 \/ shiftx >= w \/ shifty > 0 \/ h <= 0 THEN -1
    ELSE LET p0 == (h - 1) * RowBytes(w)
             p2 == p0 + RowBytes(w) - 1
             p1 == p2 + 1 - ((shiftx + 7) \div 8)
         IN IF p1 >= p0 /\ p1 > p2 THEN p1 ELSE p2

\* The shiftx arguments of the calls of RotateBitmap ENDCHAR makes, in order.
RotateCalls(bx, xoff, outline) ==
    (IF bx - xoff # 0 THEN << bx - xoff >> ELSE << >>)
    \o (IF outline THEN << 1 >> ELSE << >>)

\* The buffer after the shift and the outline step of ENDCHAR.
NormalizeBitmap(bm, bx, xoff, fw, fh, outline) ==
    LET b1 == IF bx - xoff # 0
              THEN RotateBitmap(bm, bx - xoff, 0, fw, fh)
              ELSE bm
    IN IF outline
       THEN OutlineCharacter(RotateBitmap(b1, 1, 0, fw, fh), fw, fh)
       ELSE b1

\* The row offset ENDCHAR hands to DumpCharacter.
YOffset(by, bh, fh, yoff) == fh - (by - yoff + bh)

(***************************************************************************)
(* Memory as malloc returns it.                                            *)
(***************************************************************************)
\* Byte i - 1 of the glyph buffer as malloc left it: any value of 0..255.
MallocByte(i) == -i

\* The glyph buffer of len bytes as malloc returns it.
MallocBuffer(len) == [i \in 1..len |-> MallocByte(i)]

\* Entry k of a table as malloc left it: any value of 0 .. 2^32 - 1.  The
\* tables are two allocations: table is 1 for width_table, 2 for
\* encoding_table.
MallocWord(table, k) == [hi |-> -table, lo |-> k]

\* No BITMAP line has cleared the rows of the buffer yet.
Uncleared(bm, w, h) == \E i \in 1..(RowBytes(w) * h) : bm[i] < 0

\* The calls ENDCHAR makes on the buffer, in order.
EndCharCalls(bx, xoff, outline) ==
    [i \in 1..Len(RotateCalls(bx, xoff, outline)) |->
        [op |-> "rotate", shiftx |-> RotateCalls(bx, xoff, outline)[i],
         shifty |-> 0]]
    \o (IF outline THEN << [op |-> "outline", shiftx |-> 0, shifty |-> 0] >>
        ELSE << >>)

\* The buffer after the calls, made on the buffer G.
RECURSIVE Applied(_, _, _, _)
Applied(G, calls, w, h) ==
    IF calls = << >> THEN G
    ELSE Applied(IF Head(calls).op = "rotate"
                 THEN RotateBitmap(G, Head(calls).shiftx, Head(calls).shifty, w, h)
                 ELSE OutlineCharacter(G, w, h),
                 Tail(calls), w, h)

\* The byte the entry x of a buffer or of an emitted row is, in a run where
\* malloc left the bytes G in the buffer and the calls were made on them.
Valued(x, G, calls, w, h) ==
    IF x >= 0 THEN x ELSE Applied(G, calls, w, h)[-x]

(***************************************************************************)
(* Spec: ReadBdf over an input file.  The header loop has run: the font    *)
(* box and the glyph count are known and positive, the outline border is   *)
(* added to the font box, the tables and the buffer are allocated.  The    *)
(* file is drawn line by line, and any line may follow any line: the loop  *)
(* looks at the keyword of a line only.                                    *)
(*                                                                         *)
(* pos and blk take no part in what the program does.  They record, for    *)
(* the properties, whether the lines read since the last ENDCHAR came in   *)
(* the order of a glyph block of the format,                               *)
(*   [STARTCHAR] [ENCODING] [DWIDTH] [BBX] BITMAP hex-row* ENDCHAR         *)
(* (pos = 0 .. 5 is the place in such a block, pos = 6 says a line came    *)
(* out of this order), and which lines the block has had.                  *)
(***************************************************************************)
DeclaredBoxes == { [w |-> 8, h |-> 8, xoff |-> x, yoff |-> 0] : x \in {-1, 0} }
CharsValues == {1, 2}
EncodingValues == {65}
DwidthValues == {7}
\* BBX lines: << bbw, bbh, bbx, bby >>
BoxValues == { <<8, 8, -1, 0>>, <<8, 7, 0, 0>>, <<9, 8, 0, 0>> }
\* hex rows as character codes: "a1", and a line of 17 times "aa"
RowLines == { <<97, 49>>, [i \in 1..34 |-> 97] }
NoBlock == [ordered |-> TRUE, started |-> FALSE, enc |-> << >>, dw |-> << >>,
            box |-> << >>, rows |-> << >>]

\* A block one of whose lines came out of the order of the format.
OutOfOrder == [NoBlock EXCEPT !.ordered = FALSE]

NoGlyph == [valid |-> FALSE, encoding |-> 0, shifted |-> 0, overflow |-> 0,
            rotates |-> << >>, yoffset |-> 0, rows |-> << >>,
            comment |-> << >>, garbage |-> << >>, block |-> NoBlock]

NoWrite == [valid |-> FALSE, idx |-> 0, width |-> U32(0), encoding |-> U32(0),
            inside |-> TRUE, warned |-> FALSE,
            width_in |-> 0, bbx_in |-> 0, bbw_in |-> 0]

Init ==
    /\ FnOff
    /\ pc = "run"
    /\ Outline \in BOOLEAN
    /\ \E box \in DeclaredBoxes :
          /\ fontboundingbox_width = box.w + (IF Outline THEN 1 ELSE 0)
          /\ fontboundingbox_height = box.h + (IF Outline THEN 1 ELSE 0)
          /\ fontboundingbox_xoff = box.xoff
          /\ fontboundingbox_yoff = box.yoff
    /\ chars \in CharsValues
    /\ n = 0
    /\ encoding = -1
    /\ bbx = 0 /\ bby = 0 /\ bbw = 0 /\ bbh = 0
    /\ width = INT_MIN
    /\ scanline = -1
    /\ bitmap = MallocBuffer(RowBytes(fontboundingbox_width)
                                * fontboundingbox_height * 2)
    /\ garbage = << >>
    /\ width_table = << >>
    /\ encoding_table = << >>
    /\ last = NoGlyph
    /\ out_count = 0 /\ out_bytes = 0
    /\ out_widths = << >> /\ out_encodings = << >>
    /\ wr = NoWrite
    /\ pos = 0
    /\ blk = NoBlock
    /\ nlines = 0

\* The record of a line whose place in a block of the format is after p:
\* the place q and the block b if the line is in order, else out of order.
Place(p, q) == IF pos <= p THEN q ELSE 6
Lines(p, b) == IF pos <= p THEN b ELSE OutOfOrder
\* the store of the block before is forgotten at the first line of a block
Store == IF pos = 0 THEN NoWrite ELSE wr

\* The loop reads one more line that it acts on.  MaxLines bounds these
\* lines of a file; the lines the loop skips (the header lines it reads
\* again, SWIDTH, ENDFONT, ...) change nothing and are not counted.
ReadLine ==
    /\ pc = "run"
    /\ nlines < MaxLines
    /\ nlines' = nlines + 1

StartChar ==
    /\ ReadLine
    /\ width' = fontboundingbox_width
    /\ pos' = Place(0, 1)
    /\ blk' = Lines(0, [blk EXCEPT !.started = TRUE])
    /\ last' = NoGlyph
    /\ wr' = Store
    /\ UNCHANGED << pc, Outline, fontboundingbox_width, fontboundingbox_height,
                    fontboundingbox_xoff, fontboundingbox_yoff, chars, n,
                    encoding, bbx, bby, bbw, bbh, scanline, bitmap, garbage,
                    width_table, encoding_table, out_count, out_bytes,
                    out_widths, out_encodings >>
    /\ UNCHANGED fnVars

Encoding(e) ==
    /\ ReadLine
    /\ encoding' = e
    /\ pos' = Place(1, 2)
    /\ blk' = Lines(1, [blk EXCEPT !.enc = << e >>])
    /\ last' = NoGlyph
    /\ wr' = Store
    /\ UNCHANGED << pc, Outline, fontboundingbox_width, fontboundingbox_height,
                    fontboundingbox_xoff, fontboundingbox_yoff, chars, n,
                    bbx, bby, bbw, bbh, width, scanline, bitmap, garbage,
                    width_table, encoding_table, out_count, out_bytes,
                    out_widths, out_encodings >>
    /\ UNCHANGED fnVars

Dwidth(w) ==
    /\ ReadLine
    /\ width' = w
    /\ pos' = Place(2, 3)
    /\ blk' = Lines(2, [blk EXCEPT !.dw = << w >>])
    /\ last' = NoGlyph
    /\ wr' = Store
    /\ UNCHANGED << pc, Outline, fontboundingbox_width, fontboundingbox_height,
                    fontboundingbox_xoff, fontboundingbox_yoff, chars, n,
                    encoding, bbx, bby, bbw, bbh, scanline, bitmap, garbage,
                    width_table, encoding_table, out_count, out_bytes,
                    out_widths, out_encodings >>
    /\ UNCHANGED fnVars

Bbx(b) ==
    /\ ReadLine
    /\ bbw' = b[1] /\ bbh' = b[2] /\ bbx' = b[3] /\ bby' = b[4]
    /\ pos' = Place(3, 4)
    /\ blk' = Lines(3, [blk EXCEPT !.box = << b >>])
    /\ last' = NoGlyph
    /\ wr' = Store
    /\ UNCHANGED << pc, Outline, fontboundingbox_width, fontboundingbox_height,
                    fontboundingbox_xoff, fontboundingbox_yoff, chars, n,
                    encoding, width, scanline, bitmap, garbage,
                    width_table, encoding_table, out_count, out_bytes,
                    out_widths, out_encodings >>
    /\ UNCHANGED fnVars

\* BITMAP.  The store width_table[n] with n >= chars is outside the
\* allocation: the run either goes on (the store lands in memory no table
\* is printed from) or is ended by the allocator.  MaxGlyphs bounds the
\* BITMAP lines of a file.
Bitmap ==
    /\ ReadLine
    /\ n < MaxGlyphs
    /\ IF width = INT_MIN
       THEN /\ pc' = "exit"
            /\ UNCHANGED << n, bbx, width, scanline, bitmap, garbage,
                            width_table, encoding_table, wr, pos, blk >>
       ELSE /\ pc' \in (IF n >= chars THEN {"run", "crash"} ELSE {"run"})
            /\ width' = AdjustWidth(width, bbx, bbw, Outline)
            /\ bbx' = AdjustBbx(bbx)
            /\ width_table' = IF n < chars
                              THEN Append(width_table, U32(width'))
                              ELSE width_table
            /\ encoding_table' = IF n < chars
                                 THEN Append(encoding_table, U32(encoding))
                                 ELSE encoding_table
            /\ wr' = [valid |-> TRUE, idx |-> n, width |-> U32(width'),
                      encoding |-> U32(encoding), inside |-> n < chars,
                      warned |-> n = chars,
                      width_in |-> width, bbx_in |-> bbx, bbw_in |-> bbw]
            /\ n' = n + 1
            /\ scanline' = IF Outline THEN 1 ELSE 0
            /\ bitmap' = ClearBitmap(bitmap, fontboundingbox_width,
                                     fontboundingbox_height)
            /\ garbage' = << >>
            /\ pos' = Place(4, 5)
            /\ blk' = Lines(4, blk)
    /\ last' = NoGlyph
    /\ UNCHANGED << Outline, fontboundingbox_width, fontboundingbox_height,
                    fontboundingbox_xoff, fontboundingbox_yoff, chars,
                    encoding, bby, bbw, bbh, out_count, out_bytes,
                    out_widths, out_encodings >>
    /\ UNCHANGED fnVars

\* A line that starts with no keyword: a hex row while scanline >= 0,
\* skipped otherwise.  A store outside the buffer ends the run or is lost.
\* MaxRows bounds the hex rows that follow a BITMAP line.
HexRow(s) ==
    /\ IF scanline >= 0
       THEN /\ ReadLine
            /\ scanline - (IF Outline THEN 1 ELSE 0) < MaxRows
            /\ bitmap' = WriteRow(bitmap, scanline, fontboundingbox_width,
                                  DecodeLine(s, 1))
            /\ scanline' = scanline + 1
            /\ pc' \in (IF WriteOutside(bitmap, scanline, fontboundingbox_width,
                                        DecodeLine(s, 1))
                        THEN {"run", "crash"} ELSE {"run"})
            /\ blk' = IF pos = 5 THEN [blk EXCEPT !.rows = Append(@, s)]
                      ELSE blk
       ELSE pc = "run" /\ UNCHANGED << bitmap, scanline, pc, blk, nlines >>
    /\ UNCHANGED << Outline, fontboundingbox_width, fontboundingbox_height,
                    fontboundingbox_xoff, fontboundingbox_yoff, chars, n,
                    encoding, bbx, bby, bbw, bbh, width, garbage,
                    width_table, encoding_table, last, out_count, out_bytes,
                    out_widths, out_encodings, wr, pos >>
    /\ UNCHANGED fnVars

\* ENDCHAR.  While no BITMAP line has cleared the rows of the buffer, the
\* calls of RotateBitmap and OutlineCharacter work on the bytes malloc left:
\* the calls are added to garbage, and the rows dumped are these bytes by
\* name.  MaxGlyphs bounds the ENDCHAR lines of a file.
EndChar ==
    /\ ReadLine
    /\ out_count < MaxGlyphs
    /\ garbage' = IF Uncleared(bitmap, fontboundingbox_width,
                               fontboundingbox_height)
                  THEN garbage \o EndCharCalls(bbx, fontboundingbox_xoff, Outline)
                  ELSE garbage
    /\ \E bm \in {IF Uncleared(bitmap, fontboundingbox_width,
                               fontboundingbox_height)
                  THEN bitmap
                  ELSE NormalizeBitmap(bitmap, bbx, fontboundingbox_xoff,
                                       fontboundingbox_width,
                                       fontboundingbox_height, Outline)} :
       LET flags == ShiftFlags(bbx, bby, bbw, bbh, fontboundingbox_width,
                               fontboundingbox_height, fontboundingbox_xoff,
                               fontboundingbox_yoff)
           yo == YOffset(bby, bbh, fontboundingbox_height, fontboundingbox_yoff)
           rows == DumpCharacter(bm, fontboundingbox_width,
                                 fontboundingbox_height, yo)
       IN /\ bitmap' = bm
          /\ last' = [valid |-> TRUE, encoding |-> encoding,
                      shifted |-> flags.shifted, overflow |-> flags.overflow,
                      rotates |-> RotateCalls(bbx, fontboundingbox_xoff, Outline),
                      yoffset |-> yo, rows |-> rows,
                      comment |-> IF flags.overflow = 1
                                  THEN DumpCharacter(bm, fontboundingbox_width,
                                                     fontboundingbox_height, 0)
                                  ELSE << >>,
                      garbage |-> garbage',
                      block |-> IF pos = 5 THEN blk ELSE OutOfOrder]
          /\ out_count' = out_count + 1
          /\ out_bytes' = out_bytes + CountBytes(rows)
    /\ scanline' = -1
    /\ width' = INT_MIN
    /\ pos' = 0
    /\ blk' = NoBlock
    /\ UNCHANGED << pc, Outline, fontboundingbox_width, fontboundingbox_height,
                    fontboundingbox_xoff, fontboundingbox_yoff, chars, n,
                    encoding, bbx, bby, bbw, bbh,
                    width_table, encoding_table,
                    out_widths, out_encodings, wr >>
    /\ UNCHANGED fnVars

\* End of file, after any line: WidthTable and EncodingTable print chars
\* entries each; an entry never stored is the word malloc left there.
EndOfFile ==
    /\ pc = "run"
    /\ out_widths' =
          [i \in 1..chars |-> IF i <= Len(width_table)
                              THEN width_table[i] ELSE MallocWord(1, i - 1)]
    /\ out_encodings' =
          [i \in 1..chars |-> IF i <= Len(encoding_table)
                              THEN encoding_table[i] ELSE MallocWord(2, i - 1)]
    /\ pc' = "done"
    /\ UNCHANGED << Outline, fontboundingbox_width, fontboundingbox_height,
                    fontboundingbox_xoff, fontboundingbox_yoff, chars, n,
                    encoding, bbx, bby, bbw, bbh, width, scanline, bitmap,
                    garbage, width_table, encoding_table, last, out_count,
                    out_bytes, wr, pos, blk, nlines >>
    /\ UNCHANGED fnVars

Next ==
    \/ StartChar
    \/ \E e \in EncodingValues : Encoding(e)
    \/ \E w \in DwidthValues : Dwidth(w)
    \/ \E b \in BoxValues : Bbx(b)
    \/ Bitmap
    \/ \E s \in RowLines : HexRow(s)
    \/ EndChar
    \/ EndOfFile

Spec == Init /\ [][Next]_vars

(***************************************************************************)
(* Properties of ReadBdf (Spec).                                           *)
(***************************************************************************)
\* The font box as FONTBOUNDINGBOX declares it (without the outline border).
DeclaredWidth == fontboundingbox_width - (IF Outline THEN 1 ELSE 0)
DeclaredHeight == fontboundingbox_height - (IF Outline THEN 1 ELSE 0)

\* The BBX line of a block, << bbw, bbh, bbx, bby >>.
BoxOf(block) == block.box[1]

\* A glyph was emitted by the ENDCHAR just read.
Emitted == last.valid

\* The rows a block's hex lines decode to, each cut or padded with zero
\* bytes to the row length, followed by blank rows up to the height h.
PaddedRows(block, w, h) ==
    [y \in 1..h |->
        [j \in 1..RowBytes(w) |->
            IF y <= Len(block.rows) /\ j <= Len(DecodeLine(block.rows[y], 1))
            THEN DecodeLine(block.rows[y], 1)[j]
            ELSE 0]]

\* C5: for a block whose BBX has bbx = fontbox.xoff and bby + bbh =
\* fontbox.yoff + fontbox.height, ENDCHAR never calls RotateBitmap and the
\* bitmap emitted is the decoded hex rows padded with blank rows to the font
\* box height.
C5_AlignedGlyphNotShifted ==
    ( /\ Emitted
      /\ last.block.box # << >>
      /\ BoxOf(last.block)[3] = fontboundingbox_xoff
      /\ BoxOf(last.block)[4] + BoxOf(last.block)[2]
            = fontboundingbox_yoff + fontboundingbox_height )
    => /\ last.rotates = << >>
       /\ last.rows = PaddedRows(last.block, fontboundingbox_width,
                                 fontboundingbox_height)

\* C6: with a font box of width 8 and height 8, a glyph whose BBX line has
\* bbx = fontbox.xoff - 1 is flagged shifted and overflow at its ENDCHAR.
C6_LeftOverflowFlagged ==
    ( /\ Emitted
      /\ DeclaredWidth = 8 /\ DeclaredHeight = 8
      /\ last.block.box # << >>
      /\ BoxOf(last.block)[3] = fontboundingbox_xoff - 1 )
    => (last.shifted = 1 /\ last.overflow = 1)

\* C7: the bitmap ENDCHAR emits has exactly fontbox.height rows of exactly
\* ceil(fontbox.width / 8) bytes, blank rows counted; after a run that read
\* chars glyphs the blob holds chars * ceil(width / 8) * height bytes.
C7_FixedSizeEmission ==
    /\ Emitted =>
          /\ Len(last.rows) = fontboundingbox_height
          /\ \A i \in 1..Len(last.rows) :
                Len(last.rows[i]) = RowBytes(fontboundingbox_width)
    /\ (pc = "done" /\ out_count = chars) =>
          out_bytes = chars * RowBytes(fontboundingbox_width)
                            * fontboundingbox_height

\* C8: a file with one more BITMAP .. ENDCHAR block than CHARS declares is
\* warned about, is read to its end, and the width and the encoding table
\* printed have chars + 1 entries, the bitmap table chars + 1 glyphs.
C8_ExtraGlyphInTables ==
    (pc = "done" /\ n = chars + 1 /\ out_count = chars + 1)
    => /\ wr.warned
       /\ Len(out_widths) = chars + 1
       /\ Len(out_encodings) = chars + 1

\* What the run emitted for the block ended by the ENDCHAR just read.
ActualGlyph ==
    [width |-> wr.width, encoding |-> wr.encoding,
     shifted |-> last.shifted, overflow |-> last.overflow,
     rotates |-> last.rotates, rows |-> last.rows, comment |-> last.comment]

RECURSIVE WriteRows(_, _, _, _)
WriteRows(bm, sl, w, rows) ==
    IF rows = << >> THEN bm
    ELSE WriteRows(WriteRow(bm, sl, w, DecodeLine(Head(rows), 1)),
                   sl + 1, w, Tail(rows))

\* What the same lines give as the first block of a file with the same
\* header and mode: encoding, bbx, bby, bbw, bbh and width start at their
\* values before the line loop, the buffer is the one BITMAP has cleared.
FirstBlockGlyph(block) ==
    LET e == IF block.enc # << >> THEN block.enc[1] ELSE -1
        w0 == IF block.dw # << >> THEN block.dw[1] ELSE fontboundingbox_width
        b == IF block.box # << >> THEN block.box[1] ELSE << 0, 0, 0, 0 >>
        bx == AdjustBbx(b[3])
        flags == ShiftFlags(bx, b[4], b[1], b[2], fontboundingbox_width,
                            fontboundingbox_height, fontboundingbox_xoff,
                            fontboundingbox_yoff)
        raw == WriteRows(ClearBitmap(bitmap, fontboundingbox_width,
                                     fontboundingbox_height),
                         IF Outline THEN 1 ELSE 0,
                         fontboundingbox_width, block.rows)
        bm == NormalizeBitmap(raw, bx, fontboundingbox_xoff,
                              fontboundingbox_width, fontboundingbox_height,
                              Outline)
    IN [width |-> U32(AdjustWidth(w0, b[3], b[1], Outline)),
        encoding |-> U32(e),
        shifted |-> flags.shifted, overflow |-> flags.overflow,
        rotates |-> RotateCalls(bx, fontboundingbox_xoff, Outline),
        rows |-> DumpCharacter(bm, fontboundingbox_width,
                               fontboundingbox_height,
                               YOffset(b[4], b[2], fontboundingbox_height,
                                       fontboundingbox_yoff)),
        comment |-> IF flags.overflow = 1
                    THEN DumpCharacter(bm, fontboundingbox_width,
                                       fontboundingbox_height, 0)
                    ELSE << >>]

\* C9: the table entries, the flags, the shift and the bitmap emitted for a
\* block are determined by the block's lines, the font header and the mode
\* alone: they are what the same lines give in a file where no block comes
\* before them.
C9_NoCrossGlyphRetention ==
    (Emitted /\ last.block.ordered)
    => ActualGlyph = FirstBlockGlyph(last.block)

\* The width of the claim: w0, then the bbx, the bbw and the outline step.
ClaimedWidth(w0, bx, bw, outline) ==
    LET w1 == IF bx < 0 THEN w0 - bx ELSE w0
        cx == IF bx < 0 THEN 0 ELSE bx
        w2 == IF cx + bw > w1 THEN cx + bw ELSE w1
    IN IF outline THEN w2 + 1 ELSE w2

\* BITMAP has stored the entries of a block whose lines came in the order
\* of the format, and the block is being read.
Stored == wr.valid /\ pos = 5

\* What C10 says of the store, for a width w0 of a block without DWIDTH.
WidthStoreIs(fontwidth) ==
    /\ wr.width = U32(ClaimedWidth(IF blk.dw # << >> THEN blk.dw[1] ELSE fontwidth,
                                   wr.bbx_in, wr.bbw_in, Outline))
    /\ blk.box # << >> =>
          (wr.bbx_in = BoxOf(blk)[3] /\ wr.bbw_in = BoxOf(blk)[1])
    /\ blk.enc # << >> => wr.encoding = U32(blk.enc[1])
    /\ wr.inside =>
          /\ width_table[wr.idx + 1] = wr.width
          /\ encoding_table[wr.idx + 1] = wr.encoding

\* C10 as stated: the width stored at BITMAP is w3, computed from w0 = the
\* DWIDTH value or else the font box width FONTBOUNDINGBOX declares, in
\* outline mode and without it; the encoding stored is the ENCODING value.
C10_WidthFromDeclaredBox ==
    Stored => WidthStoreIs(DeclaredWidth)

\* C10 as amended: for a block whose lines come in the order of the format,
\* w0 = the DWIDTH value or else the font box width the run works with,
\* which in outline mode is the declared width plus one.
C10_WidthFromWorkingBox ==
    Stored => WidthStoreIs(fontboundingbox_width)

\* C10 witness: in outline mode a block without DWIDTH and with a negative
\* bbx has had its width stored inside the table.
C10_Witness ==
    /\ Stored /\ Outline /\ wr.inside
    /\ blk.started /\ blk.dw = << >>
    /\ blk.box # << >> /\ BoxOf(blk)[3] < 0
    /\ blk.enc # << >>
    /\ wr.width = U32(DeclaredWidth + 3)

\* C11: at ENDCHAR, with the glyph box bbx, bby, bbw, bbh and the font box
\* the run holds, the glyph is flagged shifted iff bbx # xoff or bby + bbh #
\* yoff + height, and flagged overflow iff bbx < xoff or bbx + bbw > xoff +
\* width or bby < yoff or bby + bbh > yoff + height; a glyph flagged
\* overflow is emitted twice, as a comment and normally, and the run goes on.
C11_FlagsFromBoxes ==
    Emitted =>
       /\ last.shifted = 1 <=>
             \/ bbx # fontboundingbox_xoff
             \/ bby + bbh # fontboundingbox_yoff + fontboundingbox_height
       /\ last.overflow = 1 <=>
             \/ bbx < fontboundingbox_xoff
             \/ bbx + bbw > fontboundingbox_xoff + fontboundingbox_width
             \/ bby < fontboundingbox_yoff
             \/ bby + bbh > fontboundingbox_yoff + fontboundingbox_height
       /\ last.overflow = 1 =>
             /\ Len(last.comment) = fontboundingbox_height
             /\ last.rows # << >>
             /\ pc \in {"run", "done"}

\* C12: the tables hold chars entries, and every store width_table[n],
\* encoding_table[n] made at a BITMAP line has n < chars.
C12_TableWritesInBounds ==
    wr.valid => (wr.idx < chars /\ wr.inside)

\* C13: the buffer holds 2 * ceil(width / 8) * height bytes, and for every
\* block every byte index the hex row decoder stores to and every byte index
\* RotateBitmap reads or writes at ENDCHAR lies within the buffer.
C13_BufferAccessInBounds ==
    /\ [](Len(bitmap) = 2 * RowBytes(fontboundingbox_width)
                            * fontboundingbox_height)
    /\ [](Emitted =>
            \A i \in 1..Len(last.rotates) :
               RotateMaxIndex(last.rotates[i], 0, fontboundingbox_width,
                              fontboundingbox_height) < Len(bitmap))
    /\ [][\A s \in RowLines :
            (HexRow(s) /\ scanline >= 0)
            => ~WriteOutside(bitmap, scanline, fontboundingbox_width,
                             DecodeLine(s, 1))]_vars

(***************************************************************************)
(* SpecFn: one call of RotateBitmap or OutlineCharacter on a buffer drawn  *)
(* from bounded sets.  The buffer has the capacity ReadBdf allocates,      *)
(* twice rowbytes * height; the bytes above rowbytes * height are whatever *)
(* the allocation held.                                                    *)
(***************************************************************************)
FnWidths == {7, 12}
ByteValues == {0, 129, 255}
ShiftXValues == -1..13
ShiftYValues == {-1, 0, 1}

\* Buffers for a w x h bitmap: every nominal byte and one fill byte for the
\* headroom drawn from ByteValues.
Buffers(w, h) ==
    LET nominal == RowBytes(w) * h
    IN { [i \in 1..(2 * nominal) |-> IF i <= nominal THEN f[i] ELSE g] :
            f \in [1..nominal -> ByteValues], g \in ByteValues }

InitFn ==
    /\ BdfOff
    /\ f_pc = "input"
    /\ f_width \in FnWidths
    /\ f_height \in 1..MaxHeight
    /\ f_bitmap \in Buffers(f_width, f_height)
    /\ f_before = f_bitmap
    /\ f_call = NoCall

RotateCall(shiftx, shifty) ==
    /\ f_pc = "input"
    /\ f_bitmap' = RotateBitmap(f_bitmap, shiftx, shifty, f_width, f_height)
    /\ f_call' = [op |-> "rotate", shiftx |-> shiftx, shifty |-> shifty]
    /\ f_pc' = "called"
    /\ UNCHANGED << f_width, f_height, f_before >>
    /\ UNCHANGED bdfVars

OutlineCall ==
    /\ f_pc = "input"
    /\ f_bitmap' = OutlineCharacter(f_bitmap, f_width, f_height)
    /\ f_call' = [op |-> "outline", shiftx |-> 0, shifty |-> 0]
    /\ f_pc' = "called"
    /\ UNCHANGED << f_width, f_height, f_before >>
    /\ UNCHANGED bdfVars

NextFn ==
    \/ \E shiftx \in ShiftXValues, shifty \in ShiftYValues : RotateCall(shiftx, shifty)
    \/ OutlineCall

SpecFn == InitFn /\ [][NextFn]_vars

(***************************************************************************)
(* Properties of RotateBitmap and OutlineCharacter (SpecFn).               *)
(***************************************************************************)
\* Pixel (row y, column c) of a packed bitmap, most significant bit first.
PixelOf(bm, w, y, c) ==
    (bm[y * RowBytes(w) + (c \div 8) + 1] \div (2 ^ (7 - (c % 8)))) % 2

Rotated == f_pc = "called" /\ f_call.op = "rotate"
Outlined == f_pc = "called" /\ f_call.op = "outline"

\* The nominal bytes (rowbytes * height) of the buffer are as before the call.
NominalUnchanged ==
    \A i \in 1..(RowBytes(f_width) * f_height) : f_bitmap[i] = f_before[i]

\* C1: a call with shifty = 0 and 0 <= k < W moves every row k pixels to the
\* right: pixel (y, c) of the result is pixel (y, c - k) of the input for
\* c >= k and 0 for c < k, for every k in range, multiples of 8 included.
C1_ShiftMovesPixels ==
    (Rotated /\ f_call.shifty = 0 /\ f_call.shiftx >= 0 /\ f_call.shiftx < f_width)
    => \A y \in 0..(f_height - 1), c \in 0..(8 * RowBytes(f_width) - 1) :
          PixelOf(f_bitmap, f_width, y, c) =
             IF c >= f_call.shiftx
             THEN PixelOf(f_before, f_width, y, c - f_call.shiftx)
             ELSE 0

\* C2: a call with shift_bits = 0 and shifty = 0 leaves each of the
\* H * ceil(W/8) bytes of the bitmap as it was.
C2_ZeroShiftIsNoOp ==
    (Rotated /\ f_call.shiftx = 0 /\ f_call.shifty = 0) => NominalUnchanged

\* C3 as stated: a call with shift_bits < 0, shift_bits >= W or a non-zero
\* vertical shift (positive or negative) leaves every byte as it was.
C3_AnyVerticalShiftRejected ==
    (Rotated /\ (f_call.shiftx < 0 \/ f_call.shiftx >= f_width \/ f_call.shifty # 0))
    => f_bitmap = f_before

\* C3 as amended: a call with shift_bits < 0, shift_bits >= W or a positive
\* vertical shift is refused and leaves every byte as it was.
C3_RejectedLeavesBitmap ==
    (Rotated /\ (f_call.shiftx < 0 \/ f_call.shiftx >= f_width \/ f_call.shifty > 0))
    => f_bitmap = f_before

\* C3 witness: a call with a positive vertical shift and a horizontal shift
\* that would otherwise have moved set pixels has returned.
C3_Witness ==
    /\ Rotated /\ f_call.shifty = 1 /\ f_call.shiftx = 3
    /\ f_before[1] = 129
    /\ f_bitmap = f_before

\* The in-bounds direct neighbours of pixel (x, y) in a w x h bitmap.
Neighbours(w, h, x, y) ==
    { q \in { <<x, y - 1>>, <<x - 1, y>>, <<x + 1, y>>, <<x, y + 1>> } :
        q[1] >= 0 /\ q[1] < w /\ q[2] >= 0 /\ q[2] < h }

\* C4: after OutlineCharacter a pixel (x, y) inside W x H is set iff it was
\* unset in the input and an in-bounds direct neighbour was set in the input;
\* every padding bit at a column >= W is unset; no output pixel is an input
\* pixel.
C4_OutlineIsStroke ==
    Outlined =>
        \A y \in 0..(f_height - 1), x \in 0..(8 * RowBytes(f_width) - 1) :
            /\ (PixelOf(f_bitmap, f_width, y, x) = 1) <=>
                  ( /\ x < f_width
                    /\ PixelOf(f_before, f_width, y, x) = 0
                    /\ \E q \in Neighbours(f_width, f_height, x, y) :
                          PixelOf(f_before, f_width, q[2], q[1]) = 1 )
            /\ ~ (PixelOf(f_bitmap, f_width, y, x) = 1
                    /\ PixelOf(f_before, f_width, y, x) = 1)

\* C4 witness: an outline with a set pixel was made from an input whose
\* last column was unset next to a set padding bit.
C4_Witness ==
    /\ Outlined
    /\ \E y \in 0..(f_height - 1) :
          /\ PixelOf(f_before, f_width, y, f_width) = 1
          /\ PixelOf(f_before, f_width, y, f_width - 1) = 0
          /\ PixelOf(f_bitmap, f_width, y, f_width - 1) = 0
          /\ \E x \in 0..(f_width - 1) : PixelOf(f_bitmap, f_width, y, x) = 1

====
